---- MODULE Spec2Model ----
(***************************************************************************)
(* `stellar keys generate` (cmd/soroban-cli/src/commands/keys/generate.rs) *)
(* as a state machine: a sequence of generate invocations against one      *)
(* identity store and one platform keychain.  Each invocation walks        *)
(* through Cmd::run step by step, and any number of invocations follow    *)
(* one another; the collaborators that live outside      *)
(* generate.rs (secret, locator, keyring, network) answer every call with  *)
(* any of the results their contract allows.                               *)
(***************************************************************************)
EXTENDS Integers, Sequences, FiniteSets, TLC

(***************************************************************************)
(* Bounds of the model.                                                    *)
(***************************************************************************)
\* largest account index the HD derivation accepts (stands for 2^31 - 1)
MaxHdIndex == 1

(***************************************************************************)
(* Option and Result values.                                               *)
(***************************************************************************)
None == << >>
Some(x) == << x >>
IsSome(o) == o # None
Unwrap(o) == o[1]

Ok(v) == [ok |-> TRUE, val |-> v]
Err(variant, kind) == [ok |-> FALSE, variant |-> variant, kind |-> kind]
Unit == "()"

(***************************************************************************)
(* Inputs.                                                                 *)
(***************************************************************************)
\* the names the two stores have room for
Names == {"alice", "bob"}
\* the names the invocations of Spec are given
Targets == {"alice"}
\* a seed text of a valid entropy length, and one that is too short
SeedTexts == {"1111111111111111", "short"}
\* entropies the random generator may produce
RandomEntropy == {"random-entropy-A", "random-entropy-B"}
\* None, an index in range, an index out of range
HdPaths == {None, Some(MaxHdIndex), Some(MaxHdIndex + 1)}

\* struct Cmd, for identity names drawn from `names`; config_locator and
\* network carry no state of their own here
Cmd(names) ==
  [name : names, no_fund : BOOLEAN, seed : {None} \cup {Some(t) : t \in SeedTexts},
   as_secret : BOOLEAN, keychain : BOOLEAN, hd_path : HdPaths,
   default_seed : BOOLEAN, fund : BOOLEAN]

\* the Cmd that tests::set_up_test builds
TestCmd ==
  [name |-> "alice", no_fund |-> TRUE, seed |-> None, as_secret |-> FALSE,
   keychain |-> FALSE, hd_path |-> None, default_seed |-> FALSE, fund |-> FALSE]

(***************************************************************************)
(* config::secret : seed phrases, keys, the Secret variants.               *)
(***************************************************************************)
EntropyLens == {16, 20, 24, 28, 32}
DEFAULT_SEED_TEXT == "0000000000000000"

Unset == [tag |-> "Unset"]
SeedPhraseSecret(entropy) == [tag |-> "SeedPhrase", seed_phrase |-> entropy]
SecretKeySecret(key) == [tag |-> "SecretKey", secret_key |-> key]
KeychainSecret(entry_name) == [tag |-> "Keychain", entry_name |-> entry_name]

\* a key pair is a function of the entropy and the account index
KeyPair(entropy, index) == [entropy |-> entropy, index |-> index]
\* the public half of a key pair
PublicKey(key) == [public_of |-> key]

\* Secret::from_seed
FromSeed(seed, random) ==
  IF IsSome(seed)
  THEN IF Len(Unwrap(seed)) \in EntropyLens
       THEN Ok(SeedPhraseSecret(Unwrap(seed)))
       ELSE Err("Secret", "InvalidSeed")
  ELSE Ok(SeedPhraseSecret(random))

\* Secret::test_seed_phrase
TestSeedPhrase == FromSeed(Some(DEFAULT_SEED_TEXT), DEFAULT_SEED_TEXT)

\* Option<usize>::unwrap_or_default
UnwrapOrDefault(hd_path) == IF IsSome(hd_path) THEN Unwrap(hd_path) ELSE 0

\* Secret::key_pair / Secret::private_key of an inline secret
KeyPairOf(secret, hd_path) ==
  IF secret.tag = "SecretKey"
  THEN Ok(secret.secret_key)
  ELSE IF secret.tag = "SeedPhrase"
  THEN IF UnwrapOrDefault(hd_path) <= MaxHdIndex
       THEN Ok(KeyPair(secret.seed_phrase, UnwrapOrDefault(hd_path)))
       ELSE Err("Secret", "UnsupportedPath")
  ELSE Err("Secret", "DerivationFailed")

(***************************************************************************)
(* signer::keyring : entry names and the platform keychain.                *)
(***************************************************************************)
KEYCHAIN_ENTRY_PREFIX == "keychain:"
KEYCHAIN_ENTRY_SERVICE == "org.stellar.cli"

StartsWith(s, p) == Len(s) >= Len(p) /\ SubSeq(s, 1, Len(p)) = p

\* one keychain entry for every identity, whatever its name
EntryNameWithoutName(name) ==
  KEYCHAIN_ENTRY_PREFIX \o KEYCHAIN_ENTRY_SERVICE \o "-" \o "alice"

\* format!("{}{}-{}", KEYCHAIN_ENTRY_PREFIX, KEYCHAIN_ENTRY_SERVICE, name)
EntryNameWithPrefix(name) ==
  KEYCHAIN_ENTRY_PREFIX \o KEYCHAIN_ENTRY_SERVICE \o "-" \o name

\* <Secret as FromStr>::from_str on a keychain reference
ParseSecret(text) ==
  IF StartsWith(text, KEYCHAIN_ENTRY_PREFIX \o KEYCHAIN_ENTRY_SERVICE)
  THEN Ok(KeychainSecret(text))
  ELSE Err("Secret", "InvalidSecretFormat")

EntryNames == {EntryNameWithPrefix(n) : n \in Names}

\* StellarEntry::new : the handle, or a platform error
StellarEntryNew(entry_name) ==
  {Ok(entry_name), Err("Keyring", "PlatformFailure")}

\* StellarEntry::get_public_key : the public key of the stored bytes, NoEntry
\* when nothing is stored, or in either case a platform error
GetPublicKey(kc, entry_name) ==
  {Err("Keyring", "PlatformFailure")} \cup
    IF IsSome(kc[entry_name])
    THEN {Ok(PublicKey(Unwrap(kc[entry_name])))}
    ELSE {Err("Keyring", "NoEntry")}

\* StellarEntry::set_password
SetPassword == {Ok(Unit), Err("Keyring", "KeychainWriteFailed")}

\* Secret::public_key : a Keychain secret asks the keychain, the others derive
PublicKeyOf(secret, hd_path, kc) ==
  IF secret.tag = "Keychain"
  THEN {r \in StellarEntryNew(secret.entry_name) : ~r.ok}
         \cup GetPublicKey(kc, secret.entry_name)
  ELSE IF KeyPairOf(secret, hd_path).ok
       THEN {Ok(PublicKey(KeyPairOf(secret, hd_path).val))}
       ELSE {KeyPairOf(secret, hd_path)}

(***************************************************************************)
(* config::locator and config::network.                                    *)
(***************************************************************************)
WriteIdentityResults == {Ok(Unit), Err("Config", "WriteFailed")}
\* locator::Args::read_identity
ReadIdentity(ids, name) ==
  IF IsSome(ids[name]) THEN Ok(Unwrap(ids[name])) ELSE Err("Config", "IdentityNotFound")
NetworkGetResults == {Ok("network"), Err("Network", "NetworkNotFound")}
FundAddressResults == {Ok(Unit), Err("Network", "NetworkError")}

(***************************************************************************)
(* State.                                                                  *)
(***************************************************************************)
VARIABLES
  identities,   \* the identity store: name -> Option<Secret>
  keychain,     \* the platform keychain: entry name -> Option<key pair bytes>
  cmd,          \* the Cmd of the invocation in progress (or last finished)
  pc,           \* where that invocation stands in Cmd::run
  seed_phrase,  \* local of Cmd::secret
  secret,       \* local of Cmd::run
  addr,         \* local of Cmd::run: Option<public key>
  result,       \* what the invocation returned
  log,          \* collaborator calls of this invocation, in order
  warned,       \* the "will no longer fund by default" warning was printed
  reported,     \* the key printed as already existing in the keychain
  identities0,  \* the identity store when this invocation started
  keychain0,    \* the keychain when this invocation started
  other         \* the locals of another invocation: one that is suspended
                \* while this one runs, or an earlier one kept for comparison

vars ==
  << identities, keychain, cmd, pc, seed_phrase, secret, addr, result, log,
     warned, reported, identities0, keychain0, other >>

Pending == [status |-> "Pending"]
Success == [status |-> "Ok"]
Failure(r) == [status |-> "Err", variant |-> r.variant, kind |-> r.kind]
UsageError == [status |-> "Rejected"]

Call(op, r) == [op |-> op, ok |-> r.ok, kind |-> IF r.ok THEN "" ELSE r.kind]
Ops(l) == {l[i].op : i \in DOMAIN l}
Count(l, op) == Cardinality({i \in DOMAIN l : l[i].op = op})

\* everything an invocation holds besides the two stores
Locals ==
  [cmd |-> cmd, pc |-> pc, seed_phrase |-> seed_phrase, secret |-> secret,
   addr |-> addr, result |-> result, log |-> log, warned |-> warned,
   reported |-> reported, identities0 |-> identities0, keychain0 |-> keychain0]

\* the locals of a process that has not been given its Cmd yet
IdleLocals(ids, kc) ==
  [cmd |-> TestCmd, pc |-> "idle", seed_phrase |-> Unset, secret |-> Unset,
   addr |-> None, result |-> Pending, log |-> << >>, warned |-> FALSE,
   reported |-> None, identities0 |-> ids, keychain0 |-> kc]

EmptyIdentities == [n \in Names |-> None]
EmptyKeychain == [e \in EntryNames |-> None]

Init ==
  /\ other = IdleLocals(EmptyIdentities, EmptyKeychain)
  /\ identities = [n \in Names |-> None]
  /\ keychain = [e \in EntryNames |-> None]
  /\ cmd = TestCmd
  /\ pc = "idle"
  /\ seed_phrase = Unset
  /\ secret = Unset
  /\ addr = None
  /\ result = Pending
  /\ log = << >>
  /\ warned = FALSE
  /\ reported = None
  /\ identities0 = [n \in Names |-> None]
  /\ keychain0 = [e \in EntryNames |-> None]

(***************************************************************************)
(* Decisions of generate.rs.                                               *)
(***************************************************************************)
\* seed and default_seed without conflicts_with
NoConflict(c) == FALSE

\* #[arg(conflicts_with = ...)] on seed and default_seed
ConflictsWith(c) == IsSome(c.seed) /\ c.default_seed

\* Cmd::seed_phrase that never looks at seed or default_seed
SeedPhraseAlwaysRandom(c, random) == FromSeed(None, random)

\* Cmd::seed_phrase
SeedPhraseOf(c, random) ==
  IF c.default_seed THEN TestSeedPhrase ELSE FromSeed(c.seed, random)

\* Cmd::secret without its as_secret branch
SecretModeWithoutAsSecret(c) ==
  IF c.keychain THEN "keychain" ELSE "seed_phrase"

\* the branch Cmd::secret takes
SecretMode(c) ==
  IF c.as_secret THEN "secret_key"
  ELSE IF c.keychain THEN "keychain"
  ELSE "seed_phrase"

\* `if let Ok(key) = entry.get_public_key()` : any Err means "save a new key"
KeyAlreadyExists(r) == r.ok

\* funding attempted when fund is set, even with no_fund
FundFlagOverridesNoFund(c) == c.fund \/ ~c.no_fund

\* funding attempted whatever no_fund says
FundingAlways(c) == TRUE

\* `if !self.no_fund`
FundingAttempted(c) == ~c.no_fund

\* fund_address(..).await? : the funding error returned from run
PropagateFundError(r) == r

\* .map_err(|e| warn!(..)).unwrap_or_default() on fund_address
SwallowFundError(r) == Ok(Unit)

\* the `?` operator: the value, or return the error from run
Return(r) ==
  /\ pc' = "done"
  /\ result' = IF r.ok THEN Success ELSE Failure(r)

(***************************************************************************)
(* Steps of one invocation.                                                *)
(***************************************************************************)
\* the argument parser builds the Cmd, or refuses it
Invoke(c) ==
  /\ pc = "idle"
  /\ cmd' = c
  /\ IF ConflictsWith(c)
     THEN pc' = "done" /\ result' = UsageError
     ELSE pc' = "run" /\ result' = Pending
  /\ UNCHANGED << identities, keychain, seed_phrase, secret, addr, log, warned,
                  reported, identities0, keychain0, other >>

\* the process ends: nothing of the invocation remains but the two stores
Exit ==
  /\ pc = "done"
  /\ pc' = "idle"
  /\ cmd' = TestCmd
  /\ seed_phrase' = Unset
  /\ secret' = Unset
  /\ addr' = None
  /\ result' = Pending
  /\ log' = << >>
  /\ warned' = FALSE
  /\ reported' = None
  /\ identities0' = identities
  /\ keychain0' = keychain
  /\ UNCHANGED << identities, keychain, other >>

\* run: the warning, then secret() up to seed_phrase()
RunSeedPhrase(random) ==
  /\ pc = "run"
  /\ warned' = ~cmd.fund
  /\ LET r == SeedPhraseOf(cmd, random) IN
     /\ log' = Append(log, Call("seed_phrase", r))
     /\ IF r.ok
        THEN /\ seed_phrase' = r.val
             /\ pc' = "secret"
             /\ UNCHANGED result
        ELSE /\ Return(r)
             /\ UNCHANGED seed_phrase
  /\ UNCHANGED << identities, keychain, cmd, secret, addr, reported,
                  identities0, keychain0, other >>

\* secret() going to write_to_keychain without parsing the entry name
SecretBranchWithoutParse ==
  /\ pc = "secret"
  /\ LET mode == SecretMode(cmd)
         r == IF mode = "secret_key" THEN KeyPairOf(seed_phrase, cmd.hd_path)
              ELSE IF mode = "keychain"
              THEN Ok(KeychainSecret(EntryNameWithPrefix(cmd.name)))
              ELSE Ok(seed_phrase)
     IN IF ~r.ok
        THEN Return(r) /\ UNCHANGED secret
        ELSE /\ UNCHANGED result
             /\ secret' = IF mode = "secret_key" THEN SecretKeySecret(r.val) ELSE r.val
             /\ pc' = IF mode = "keychain" THEN "kc_new" ELSE "write_identity"
  /\ UNCHANGED << identities, keychain, cmd, seed_phrase, addr, log, warned,
                  reported, identities0, keychain0, other >>

\* secret(): the branch on as_secret / keychain, up to write_to_keychain
SecretBranch ==
  /\ pc = "secret"
  /\ LET mode == SecretMode(cmd)
         r == IF mode = "secret_key" THEN KeyPairOf(seed_phrase, cmd.hd_path)
              ELSE IF mode = "keychain" THEN ParseSecret(EntryNameWithPrefix(cmd.name))
              ELSE Ok(seed_phrase)
     IN /\ log' = IF mode = "keychain" THEN Append(log, Call("parse", r)) ELSE log
        /\ IF ~r.ok
           THEN Return(r) /\ UNCHANGED secret
           ELSE /\ UNCHANGED result
                /\ secret' = IF mode = "secret_key" THEN SecretKeySecret(r.val) ELSE r.val
                /\ pc' = IF mode = "keychain" /\ r.val.tag = "Keychain"
                         THEN "kc_new" ELSE "write_identity"
  /\ UNCHANGED << identities, keychain, cmd, seed_phrase, addr, warned,
                  reported, identities0, keychain0, other >>

\* write_to_keychain: StellarEntry::new(&entry_name)?
KeychainNew ==
  /\ pc = "kc_new"
  /\ \E r \in StellarEntryNew(secret.entry_name) :
       /\ log' = Append(log, Call("entry_new", r))
       /\ IF r.ok THEN pc' = "kc_get" /\ UNCHANGED result ELSE Return(r)
  /\ UNCHANGED << identities, keychain, cmd, seed_phrase, secret, addr, warned,
                  reported, identities0, keychain0, other >>

\* write_to_keychain: if let Ok(key) = entry.get_public_key()
KeychainGet ==
  /\ pc = "kc_get"
  /\ \E r \in GetPublicKey(keychain, secret.entry_name) :
       /\ log' = Append(log, Call("get_public_key", r))
       /\ IF KeyAlreadyExists(r)
          THEN reported' = Some(r.val) /\ pc' = "write_identity"
          ELSE UNCHANGED reported /\ pc' = "kc_set"
  /\ UNCHANGED << identities, keychain, cmd, seed_phrase, secret, addr, result,
                  warned, identities0, keychain0, other >>

\* write_to_keychain with the result of set_password dropped
KeychainSetIgnoringError ==
  /\ pc = "kc_set"
  /\ LET k == KeyPairOf(seed_phrase, None) IN
     IF ~k.ok
     THEN Return(k) /\ UNCHANGED << keychain, log >>
     ELSE \E r \in SetPassword :
            /\ log' = Append(log, Call("set_password", r))
            /\ keychain' = IF r.ok
                           THEN [keychain EXCEPT ![secret.entry_name] = Some(k.val)]
                           ELSE keychain
            /\ pc' = "write_identity"
            /\ UNCHANGED result
  /\ UNCHANGED << identities, cmd, seed_phrase, secret, addr, warned, reported,
                  identities0, keychain0, other >>

\* write_to_keychain: key_pair(None)?, then entry.set_password(..)?
KeychainSet ==
  /\ pc = "kc_set"
  /\ LET k == KeyPairOf(seed_phrase, None) IN
     IF ~k.ok
     THEN Return(k) /\ UNCHANGED << keychain, log >>
     ELSE \E r \in SetPassword :
            /\ log' = Append(log, Call("set_password", r))
            /\ IF r.ok
               THEN /\ keychain' = [keychain EXCEPT ![secret.entry_name] = Some(k.val)]
                    /\ pc' = "write_identity"
                    /\ UNCHANGED result
               ELSE Return(r) /\ UNCHANGED keychain
  /\ UNCHANGED << identities, cmd, seed_phrase, secret, addr, warned, reported,
                  identities0, keychain0, other >>

\* run handing the seed phrase, not the secret, to write_identity
WriteIdentityOfSeedPhrase ==
  /\ pc = "write_identity"
  /\ \E r \in WriteIdentityResults :
       /\ log' = Append(log, Call("write_identity", r))
       /\ IF r.ok
          THEN /\ identities' = [identities EXCEPT ![cmd.name] = Some(seed_phrase)]
               /\ pc' = "persisted"
               /\ UNCHANGED result
          ELSE Return(r) /\ UNCHANGED identities
  /\ UNCHANGED << keychain, cmd, seed_phrase, secret, addr, warned, reported,
                  identities0, keychain0, other >>

\* write_identity with its error dropped instead of returned
WriteIdentityIgnoringError ==
  /\ pc = "write_identity"
  /\ \E r \in WriteIdentityResults :
       /\ log' = Append(log, Call("write_identity", r))
       /\ identities' = IF r.ok
                         THEN [identities EXCEPT ![cmd.name] = Some(secret)]
                         ELSE identities
       /\ pc' = "persisted"
       /\ UNCHANGED result
  /\ UNCHANGED << keychain, cmd, seed_phrase, secret, addr, warned, reported,
                  identities0, keychain0, other >>

\* run: self.config_locator.write_identity(&self.name, &secret)?
WriteIdentity ==
  /\ pc = "write_identity"
  /\ \E r \in WriteIdentityResults :
       /\ log' = Append(log, Call("write_identity", r))
       /\ IF r.ok
          THEN /\ identities' = [identities EXCEPT ![cmd.name] = Some(secret)]
               /\ pc' = "persisted"
               /\ UNCHANGED result
          ELSE Return(r) /\ UNCHANGED identities
  /\ UNCHANGED << keychain, cmd, seed_phrase, secret, addr, warned, reported,
                  identities0, keychain0, other >>

\* run: if !self.no_fund { let addr = secret.public_key(self.hd_path)?; ..
DeriveAddress ==
  /\ pc = "persisted"
  /\ IF ~FundingAttempted(cmd)
     THEN Return(Ok(Unit)) /\ UNCHANGED << addr, log >>
     ELSE \E r \in PublicKeyOf(secret, cmd.hd_path, keychain) :
            /\ log' = Append(log, Call("public_key", r))
            /\ IF r.ok
               THEN addr' = Some(r.val) /\ pc' = "network" /\ UNCHANGED result
               ELSE Return(Err("Secret", r.kind)) /\ UNCHANGED addr
  /\ UNCHANGED << identities, keychain, cmd, seed_phrase, secret, warned,
                  reported, identities0, keychain0, other >>

\* self.network.get(..) with its error dropped instead of returned
NetworkGetIgnoringError ==
  /\ pc = "network"
  /\ \E r \in NetworkGetResults :
       /\ log' = Append(log, Call("network_get", r))
       /\ pc' = "fund"
  /\ UNCHANGED << identities, keychain, cmd, seed_phrase, secret, addr, result,
                  warned, reported, identities0, keychain0, other >>

\* run: let network = self.network.get(&self.config_locator)?;
NetworkGet ==
  /\ pc = "network"
  /\ \E r \in NetworkGetResults :
       /\ log' = Append(log, Call("network_get", r))
       /\ IF r.ok THEN pc' = "fund" /\ UNCHANGED result ELSE Return(r)
  /\ UNCHANGED << identities, keychain, cmd, seed_phrase, secret, addr, warned,
                  reported, identities0, keychain0, other >>

\* fund_address called again for as long as it fails
FundAddressRetrying ==
  /\ pc = "fund"
  /\ \E r \in FundAddressResults :
       /\ log' = Append(log, Call("fund_address", r))
       /\ IF r.ok THEN Return(r) ELSE pc' = "fund" /\ UNCHANGED result
  /\ UNCHANGED << identities, keychain, cmd, seed_phrase, secret, addr, warned,
                  reported, identities0, keychain0, other >>

\* run: network.fund_address(&addr).await ... ; Ok(())
FundAddress ==
  /\ pc = "fund"
  /\ \E r \in FundAddressResults :
       /\ log' = Append(log, Call("fund_address", r))
       /\ Return(SwallowFundError(r))
  /\ UNCHANGED << identities, keychain, cmd, seed_phrase, secret, addr, warned,
                  reported, identities0, keychain0, other >>

\* one step of the invocation in progress
RunStep ==
  \/ \E random \in RandomEntropy : RunSeedPhrase(random)
  \/ SecretBranch
  \/ KeychainNew
  \/ KeychainGet
  \/ KeychainSet
  \/ WriteIdentity
  \/ DeriveAddress
  \/ NetworkGet
  \/ FundAddress

Next ==
  \/ \E c \in Cmd(Targets) : Invoke(c)
  \/ RunStep
  \/ Exit

Spec == Init /\ [][Next]_vars

(***************************************************************************)
(* What an invocation did, read off its log.                               *)
(***************************************************************************)
Returned == pc = "done"
Succeeded(op) == \E i \in DOMAIN log : log[i].op = op /\ log[i].ok
Failed(op) == \E i \in DOMAIN log : log[i].op = op /\ ~log[i].ok
Called(op) == op \in Ops(log)
KeychainOps == {"entry_new", "get_public_key", "set_password"}

(***************************************************************************)
(* C1: when funding is attempted and fund_address returns a network error,  *)
(* run still returns Ok and the identity written for the name is in the    *)
(* identity store.                                                         *)
(***************************************************************************)
C1_FundingFailureIsNotFatal ==
  Failed("fund_address") =>
    /\ Returned
    /\ result = Success
    /\ ReadIdentity(identities, cmd.name) = Ok(secret)

C1_Witness ==
  /\ Returned
  /\ Failed("fund_address")
  /\ result = Success
  /\ IsSome(identities[cmd.name])

(***************************************************************************)
(* C2, as claimed: once write_identity has succeeded, run always ends with *)
(* success, whatever happens while deriving the address, resolving the     *)
(* network or funding.                                                     *)
(***************************************************************************)
C2_AlwaysSuccessAfterPersisted ==
  (Returned /\ Succeeded("write_identity")) => result = Success

(***************************************************************************)
(* C2, amended: once write_identity has succeeded, the result of           *)
(* fund_address never decides the outcome, but the two steps before it do: *)
(* run returns Ok exactly when neither secret.public_key nor network.get   *)
(* failed (in particular when no_fund skips them), and otherwise returns   *)
(* that Secret or Network error with the identity already stored.          *)
(***************************************************************************)
C2_SuccessAfterPersistedUnlessAddressOrNetworkFails ==
  (Returned /\ Succeeded("write_identity")) =>
    /\ result = Success <=> ~(Failed("public_key") \/ Failed("network_get"))
    /\ Failed("public_key") => result.status = "Err" /\ result.variant = "Secret"
    /\ Failed("network_get") => result.status = "Err" /\ result.variant = "Network"
    /\ cmd.no_fund => result = Success
    /\ ReadIdentity(identities, cmd.name) = Ok(secret)

C2_Witness ==
  /\ Returned
  /\ Succeeded("write_identity")
  /\ Failed("network_get")
  /\ ~cmd.fund /\ ~cmd.no_fund
  /\ result.status = "Err"
  /\ IsSome(identities[cmd.name])

(***************************************************************************)
(* C3: a keychain entry that holds a key when an invocation starts still   *)
(* holds the same key bytes whatever the invocation does, whatever         *)
(* get_public_key returned for it.                                         *)
(***************************************************************************)
C3_FirstKeychainKeyIsKept ==
  \A e \in EntryNames : IsSome(keychain0[e]) => keychain[e] = keychain0[e]

(***************************************************************************)
(* C4: after a successful invocation with keychain=false, read_identity    *)
(* returns a SecretKey variant if as_secret=true and a SeedPhrase variant  *)
(* if as_secret=false, and the keychain was not touched.                   *)
(***************************************************************************)
C4_InlineVariantFollowsAsSecret ==
  (Returned /\ result = Success /\ ~cmd.keychain) =>
    /\ ReadIdentity(identities, cmd.name).ok
    /\ ReadIdentity(identities, cmd.name).val.tag =
         IF cmd.as_secret THEN "SecretKey" ELSE "SeedPhrase"
    /\ keychain = keychain0
    /\ Ops(log) \cap KeychainOps = {}

C4_Witness ==
  /\ Returned /\ result = Success
  /\ ~cmd.keychain /\ cmd.as_secret
  /\ identities[cmd.name] = Some(secret)
  /\ secret.tag = "SecretKey"
  /\ identities0[cmd.name] # None
  /\ Unwrap(identities0[cmd.name]).tag = "SeedPhrase"

(***************************************************************************)
(* C5: after a successful invocation with keychain=true, whatever the      *)
(* other flags, read_identity returns a Keychain variant and the keychain  *)
(* holds an entry for the name.                                            *)
(***************************************************************************)
C5_KeychainFlagPersistsKeychainVariant ==
  (Returned /\ result = Success /\ cmd.keychain) =>
    /\ ReadIdentity(identities, cmd.name).ok
    /\ ReadIdentity(identities, cmd.name).val.tag = "Keychain"
    /\ IsSome(keychain[EntryNameWithPrefix(cmd.name)])

(***************************************************************************)
(* C6, as claimed: fund_address is invoked at most once per invocation,    *)
(* and only when the fund flag is set.                                     *)
(***************************************************************************)
C6_FundedOnlyWhenFundFlag ==
  /\ Count(log, "fund_address") <= 1
  /\ Called("fund_address") => cmd.fund

(***************************************************************************)
(* C6, amended: fund_address is invoked at most once per invocation, and   *)
(* only when the no_fund flag is not set; the fund flag decides nothing    *)
(* but the warning, so an invocation with neither flag does call it.       *)
(***************************************************************************)
C6_FundedAtMostOnceUnlessNoFund ==
  /\ Count(log, "fund_address") <= 1
  /\ Called("fund_address") => ~cmd.no_fund
  /\ pc \in {"persisted", "network", "fund"} => warned = ~cmd.fund

C6_Witness ==
  /\ Returned
  /\ Count(log, "fund_address") = 1
  /\ ~cmd.fund /\ ~cmd.no_fund
  /\ warned

(***************************************************************************)
(* C7: when run returns a seed, derivation, HD-path or secret-format       *)
(* error, neither the identity store nor the keychain has been modified by *)
(* this invocation.                                                        *)
(***************************************************************************)
C7_SecretErrorsBeforePersistence ==
  ( /\ Returned
    /\ result.status = "Err"
    /\ result.kind \in {"InvalidSeed", "DerivationFailed", "UnsupportedPath",
                        "InvalidSecretFormat"} ) =>
    /\ identities = identities0
    /\ keychain = keychain0

(***************************************************************************)
(* C8: in keychain mode a failure of StellarEntry::new or of set_password  *)
(* during the storage phase is fatal: run returns an error, no identity is *)
(* written for the name and fund_address is not invoked.                   *)
(***************************************************************************)
C8_KeychainStorageFailureIsFatal ==
  (Failed("entry_new") \/ Failed("set_password")) =>
    /\ Returned
    /\ result.status = "Err"
    /\ result.variant = "Keyring"
    /\ ~Called("write_identity")
    /\ identities = identities0
    /\ keychain = keychain0
    /\ ~Called("fund_address")

C8_Witness ==
  /\ Returned
  /\ cmd.keychain /\ ~cmd.no_fund
  /\ Failed("set_password")
  /\ result.status = "Err"
  /\ identities[cmd.name] = None

(***************************************************************************)
(* C9: the funding error is the only error the flow swallows: every other  *)
(* failed component call, get_public_key failing otherwise than with       *)
(* entry-not-found included, makes run return an error.                    *)
(***************************************************************************)
C9_OnlyFundingErrorIsSwallowed ==
  \A i \in DOMAIN log :
    ( /\ ~log[i].ok
      /\ log[i].op # "fund_address"
      /\ ~(log[i].op = "get_public_key" /\ log[i].kind = "NoEntry") ) =>
      /\ Returned
      /\ result.status = "Err"
      /\ result.kind = log[i].kind

(***************************************************************************)
(* C10: a request with both an explicit seed and the fixed test seed is    *)
(* rejected before any seed phrase is generated and before any store is    *)
(* written.                                                                *)
(***************************************************************************)
C10_SeedConflictRejectedAtBoundary ==
  (IsSome(cmd.seed) /\ cmd.default_seed) =>
    /\ Returned
    /\ result = UsageError
    /\ log = << >>
    /\ seed_phrase = Unset
    /\ secret = Unset
    /\ identities = identities0
    /\ keychain = keychain0

C10_Witness ==
  /\ Returned
  /\ cmd.seed = Some("1111111111111111") /\ cmd.default_seed
  /\ result = UsageError
  /\ identities = identities0

(***************************************************************************)
(* Two invocations of the same Cmd, each against empty stores: the first   *)
(* runs to its end and is kept in `other`, the stores are emptied (a fresh *)
(* config directory and keychain, as tests::set_up_test makes), and the    *)
(* same Cmd is run again.                                                  *)
(***************************************************************************)
InvokeFirst(c) ==
  /\ other.pc = "idle"
  /\ Invoke(c)

FreshStores ==
  /\ pc = "done"
  /\ other.pc = "idle"
  /\ other' = Locals
  /\ identities' = EmptyIdentities
  /\ keychain' = EmptyKeychain
  /\ cmd' = TestCmd
  /\ pc' = "idle"
  /\ seed_phrase' = Unset
  /\ secret' = Unset
  /\ addr' = None
  /\ result' = Pending
  /\ log' = << >>
  /\ warned' = FALSE
  /\ reported' = None
  /\ identities0' = EmptyIdentities
  /\ keychain0' = EmptyKeychain

InvokeAgain ==
  /\ other.pc = "done"
  /\ Invoke(other.cmd)

NextTwice ==
  \/ \E c \in Cmd(Targets) : InvokeFirst(c)
  \/ FreshStores
  \/ InvokeAgain
  \/ RunStep

SpecTwice == Init /\ [][NextTwice]_vars

WriteSucceeded(l) ==
  \E i \in DOMAIN l : l[i].op = "write_identity" /\ l[i].ok

(***************************************************************************)
(* C11: non-random generation is deterministic: two invocations with the   *)
(* same seed text (or both with the fixed test seed), the same hd_path and *)
(* the same mode flags, each started from empty stores, persist the same   *)
(* Secret, store the same keychain bytes and derive the same address.      *)
(***************************************************************************)
C11_NonRandomGenerationIsDeterministic ==
  ( /\ other.pc = "done"
    /\ cmd = other.cmd
    /\ IsSome(cmd.seed) \/ cmd.default_seed ) =>
    /\ (pc \notin {"idle", "run"} /\ other.seed_phrase # Unset) =>
         seed_phrase = other.seed_phrase
    /\ (WriteSucceeded(log) /\ WriteSucceeded(other.log)) =>
         identities[cmd.name] = Some(other.secret)
    /\ (IsSome(addr) /\ IsSome(other.addr)) => addr = other.addr

C11_Witness ==
  /\ other.pc = "done"
  /\ pc = "done"
  /\ cmd = other.cmd
  /\ cmd.seed = Some("1111111111111111")
  /\ cmd.hd_path = Some(MaxHdIndex)
  /\ cmd.as_secret
  /\ WriteSucceeded(log) /\ WriteSucceeded(other.log)
  /\ identities[cmd.name] = Some(other.secret)
  /\ IsSome(addr) /\ addr = other.addr

FundingOps == {"public_key", "network_get", "fund_address"}

(***************************************************************************)
(* C12: when no_fund is set, whatever the fund flag, run never derives the *)
(* public address, never resolves the network and never calls              *)
(* fund_address; once the identity is persisted run returns success with   *)
(* the identity in the store.                                              *)
(***************************************************************************)
C12_NoFundSkipsFundingBlock ==
  cmd.no_fund =>
    /\ Ops(log) \cap FundingOps = {}
    /\ addr = None
    /\ pc \notin {"network", "fund"}
    /\ (Returned /\ Succeeded("write_identity")) =>
         /\ result = Success
         /\ ReadIdentity(identities, cmd.name) = Ok(secret)

C12_Witness ==
  /\ Returned
  /\ cmd.no_fund /\ cmd.fund
  /\ Succeeded("write_identity")
  /\ result = Success
  /\ identities[cmd.name] = Some(secret)
  /\ addr = None

(***************************************************************************)
(* Stores that already hold something for a name no invocation is given:   *)
(* nothing, a seed-phrase identity, or a keychain identity with its entry  *)
(* (what `generate bob --default-seed [--keychain]` leaves behind).        *)
(***************************************************************************)
BobStores ==
  { [identity |-> None, entry |-> None],
    [identity |-> Some(SeedPhraseSecret(DEFAULT_SEED_TEXT)), entry |-> None],
    [identity |-> Some(KeychainSecret(EntryNameWithPrefix("bob"))),
     entry |-> Some(KeyPair(DEFAULT_SEED_TEXT, 0))] }

InitStores ==
  \E b \in BobStores :
    /\ identities = [n \in Names |-> IF n = "bob" THEN b.identity ELSE None]
    /\ keychain = [e \in EntryNames |->
                     IF e = EntryNameWithPrefix("bob") THEN b.entry ELSE None]
    /\ identities0 = identities
    /\ keychain0 = keychain
    /\ other = IdleLocals(EmptyIdentities, EmptyKeychain)
    /\ cmd = TestCmd
    /\ pc = "idle"
    /\ seed_phrase = Unset
    /\ secret = Unset
    /\ addr = None
    /\ result = Pending
    /\ log = << >>
    /\ warned = FALSE
    /\ reported = None

SpecStores == InitStores /\ [][Next]_vars

(***************************************************************************)
(* C13: a successful invocation replaces the association of its name       *)
(* entirely: read_identity returns exactly the Secret this invocation      *)
(* computed (the seed phrase, the key derived from it at hd_path, or the   *)
(* keychain reference of the name), whatever was stored before, and the    *)
(* identities of all other names are unchanged.                            *)
(***************************************************************************)
C13_WriteReplacesOnlyOwnName ==
  (Returned /\ result = Success) =>
    /\ ReadIdentity(identities, cmd.name) = Ok(secret)
    /\ secret =
         IF cmd.as_secret
         THEN SecretKeySecret(KeyPair(seed_phrase.seed_phrase,
                                      IF IsSome(cmd.hd_path) THEN cmd.hd_path[1] ELSE 0))
         ELSE IF cmd.keychain
         THEN KeychainSecret("keychain:org.stellar.cli-" \o cmd.name)
         ELSE seed_phrase
    /\ \A n \in Names \ {cmd.name} : identities[n] = identities0[n]

C13_Witness ==
  /\ Returned /\ result = Success
  /\ IsSome(identities0[cmd.name])
  /\ Unwrap(identities0[cmd.name]).tag = "Keychain"
  /\ identities[cmd.name] = Some(secret)
  /\ secret.tag = "SeedPhrase"
  /\ \E n \in Names \ {cmd.name} : IsSome(identities[n])

(***************************************************************************)
(* C14: in keychain mode the entry name built from prefix, service and     *)
(* identity name is parsed as a Secret before anything is written: every   *)
(* keychain call, and so every keychain write, comes after a parse that    *)
(* succeeded and yielded the Keychain variant of that entry name, and that *)
(* same variant is what gets persisted as the identity.                    *)
(***************************************************************************)
C14_KeychainWriteOnlyAfterParse ==
  /\ \A i \in DOMAIN log :
       log[i].op \in KeychainOps =>
         \E j \in 1..(i - 1) : log[j].op = "parse" /\ log[j].ok
  /\ (Ops(log) \cap KeychainOps # {}) =>
       secret = KeychainSecret("keychain:org.stellar.cli-" \o cmd.name)
  /\ keychain # keychain0 =>
       /\ Succeeded("set_password")
       /\ \A e \in EntryNames :
            keychain[e] # keychain0[e] => e = secret.entry_name
  /\ (Succeeded("parse") /\ Succeeded("write_identity")) =>
       identities[cmd.name] = Some(KeychainSecret("keychain:org.stellar.cli-" \o cmd.name))

C14_Witness ==
  /\ Succeeded("parse")
  /\ Succeeded("set_password")
  /\ Succeeded("write_identity")
  /\ keychain # keychain0
  /\ identities[cmd.name] = Some(secret)
  /\ secret.tag = "Keychain"

\* how far along Start, SecretReady, Persisted, Done a position of run is
Rank(p) ==
  CASE p = "idle" -> 0
    [] p = "run" -> 1
    [] p = "secret" -> 2
    [] p = "kc_new" -> 3
    [] p = "kc_get" -> 4
    [] p = "kc_set" -> 5
    [] p = "write_identity" -> 6
    [] p = "persisted" -> 7
    [] p = "network" -> 8
    [] p = "fund" -> 9
    [] p = "done" -> 10

(***************************************************************************)
(* C15: no retries: within one invocation write_identity, set_password and *)
(* fund_address are each executed at most once; every step moves run       *)
(* strictly forward (only the start of a new process goes back to the      *)
(* beginning), and an invocation that has not returned can always take its *)
(* next step, so every invocation terminates.                              *)
(***************************************************************************)
C15_NoRetriesForwardOnly ==
  /\ [](/\ Count(log, "write_identity") <= 1
        /\ Count(log, "set_password") <= 1
        /\ Count(log, "fund_address") <= 1
        /\ pc \notin {"idle", "done"} => ENABLED RunStep)
  /\ [][pc' # "idle" => Rank(pc') > Rank(pc)]_vars

C15_Witness ==
  /\ Returned
  /\ Count(log, "write_identity") = 1
  /\ Count(log, "set_password") = 1
  /\ Count(log, "fund_address") = 1
  /\ Failed("fund_address")

(***************************************************************************)
(* Two processes running generate at the same time against the same config *)
(* directory and keychain.  The variables hold the process that takes the  *)
(* next step and `other` holds the suspended one; Switch hands the         *)
(* processor over at any point between two steps.  The two invocations in  *)
(* flight are for different names.                                         *)
(***************************************************************************)
ConcCmd ==
  [name : Names, no_fund : BOOLEAN, seed : {None}, as_secret : BOOLEAN,
   keychain : BOOLEAN, hd_path : {None}, default_seed : {FALSE}, fund : {FALSE}]

InvokeConc(c) ==
  /\ other.pc = "idle" \/ c.name # other.cmd.name
  /\ Invoke(c)

Switch ==
  /\ other' = Locals
  /\ cmd' = other.cmd
  /\ pc' = other.pc
  /\ seed_phrase' = other.seed_phrase
  /\ secret' = other.secret
  /\ addr' = other.addr
  /\ result' = other.result
  /\ log' = other.log
  /\ warned' = other.warned
  /\ reported' = other.reported
  /\ identities0' = other.identities0
  /\ keychain0' = other.keychain0
  /\ UNCHANGED << identities, keychain >>

NextConc ==
  \/ \E c \in ConcCmd : InvokeConc(c)
  \/ RunStep
  \/ Switch

SpecConc == Init /\ [][NextConc]_vars

(***************************************************************************)
(* C16: concurrent invocations for different names do not interfere: the   *)
(* keychain entry an invocation works on is the one of its own name; a     *)
(* step changes no identity and no keychain entry but those of the name of *)
(* the invocation taking it; and what an invocation has persisted (its     *)
(* identity, the key it saved in the keychain) is still there whatever the *)
(* other invocation does meanwhile.                                        *)
(***************************************************************************)
C16_DifferentNamesDoNotInterfere ==
  /\ [](/\ (Ops(log) \cap KeychainOps # {}) =>
              secret = KeychainSecret("keychain:org.stellar.cli-" \o cmd.name)
        /\ Succeeded("write_identity") => identities[cmd.name] = Some(secret)
        /\ WriteSucceeded(other.log) =>
              identities[other.cmd.name] = Some(other.secret)
        /\ Succeeded("set_password") =>
              keychain["keychain:org.stellar.cli-" \o cmd.name]
                = Some(KeyPair(seed_phrase.seed_phrase, 0))
        /\ (\E i \in DOMAIN other.log :
               other.log[i].op = "set_password" /\ other.log[i].ok) =>
              keychain["keychain:org.stellar.cli-" \o other.cmd.name]
                = Some(KeyPair(other.seed_phrase.seed_phrase, 0)))
  /\ [][/\ \A n \in Names \ {cmd.name} : identities'[n] = identities[n]
        /\ \A e \in DOMAIN keychain \ {"keychain:org.stellar.cli-" \o cmd.name} :
              keychain'[e] = keychain[e]]_vars

C16_Witness ==
  /\ pc = "done"
  /\ other.pc = "done"
  /\ cmd.name # other.cmd.name
  /\ Succeeded("set_password")
  /\ Succeeded("write_identity")
  /\ \E i \in DOMAIN other.log : other.log[i].op = "set_password" /\ other.log[i].ok
  /\ WriteSucceeded(other.log)
  /\ other.log[Len(other.log)].op = "fund_address"
  /\ identities[cmd.name] # identities[other.cmd.name]
  /\ seed_phrase # other.seed_phrase

(***************************************************************************)
(* C17: fund_address is called only after write_identity has succeeded:    *)
(* every call of the funding block comes later in the invocation than a    *)
(* successful write_identity, and the identity is in the store by then.    *)
(***************************************************************************)
C17_FundingOnlyAfterPersistence ==
  /\ \A i \in DOMAIN log :
       log[i].op \in FundingOps =>
         \E j \in 1..(i - 1) : log[j].op = "write_identity" /\ log[j].ok
  /\ pc \in {"persisted", "network", "fund"} =>
       /\ Succeeded("write_identity")
       /\ identities[cmd.name] = Some(secret)

C17_Witness ==
  /\ Called("fund_address")
  /\ Succeeded("write_identity")
  /\ identities[cmd.name] = Some(secret)
  /\ identities0[cmd.name] # Some(secret)

\* the invocation saved a key in a keychain entry that held none or another
NewlyWrittenEntry ==
  /\ Succeeded("set_password")
  /\ keychain["keychain:org.stellar.cli-" \o cmd.name]
       # keychain0["keychain:org.stellar.cli-" \o cmd.name]

\* the identity store holds the Keychain reference for the name
KeychainIdentityPresent ==
  identities[cmd.name]
    = Some(KeychainSecret("keychain:org.stellar.cli-" \o cmd.name))

(***************************************************************************)
(* C18 as stated: after any invocation, successful or failed, a keychain   *)
(* entry the invocation newly wrote is accompanied by a Keychain identity  *)
(* for the name.                                                           *)
(***************************************************************************)
C18_NewEntryAlwaysHasIdentity ==
  (Returned /\ NewlyWrittenEntry) => KeychainIdentityPresent

(***************************************************************************)
(* C18 amended: after an invocation in which write_identity succeeded, a   *)
(* newly written keychain entry is accompanied by the Keychain identity,   *)
(* whether the invocation then succeeds or fails; when write_identity      *)
(* fails, the invocation fails with that error, the identity store is left *)
(* as it was and the new keychain entry stays.                             *)
(***************************************************************************)
C18_NewEntryHasIdentityUnlessWriteIdentityFails ==
  (Returned /\ NewlyWrittenEntry) =>
    IF Succeeded("write_identity")
    THEN KeychainIdentityPresent
    ELSE /\ Failed("write_identity")
         /\ result = Failure(Err("Config", "WriteFailed"))
         /\ identities = identities0

C18_Witness ==
  /\ Returned
  /\ NewlyWrittenEntry
  /\ Succeeded("write_identity")
  /\ result.status = "Err"
  /\ KeychainIdentityPresent
  /\ identities0[cmd.name] = None

\* the key the claim expects the funded address to belong to
ExpectedFundedKey ==
  IF secret.tag = "SeedPhrase"
  THEN KeyPair(secret.seed_phrase, IF IsSome(cmd.hd_path) THEN Unwrap(cmd.hd_path) ELSE 0)
  ELSE IF secret.tag = "SecretKey"
  THEN secret.secret_key
  ELSE IF IsSome(keychain0[secret.entry_name])
  THEN Unwrap(keychain0[secret.entry_name])
  ELSE KeyPair(seed_phrase.seed_phrase, 0)

(***************************************************************************)
(* C19: the address handed to fund_address is the public key of the key    *)
(* the persisted identity resolves to: for a SeedPhrase identity the key   *)
(* at hd_path, for a SecretKey identity the stored key, for a Keychain     *)
(* identity the key in the entry, which is the key that was there when the *)
(* entry already existed and otherwise the key of the new seed phrase at   *)
(* the default index.                                                      *)
(***************************************************************************)
C19_FundedAddressIsPersistedKey ==
  Called("fund_address") =>
    /\ identities[cmd.name] = Some(secret)
    /\ addr = Some(PublicKey(ExpectedFundedKey))

====
